---- MODULE Spec2Model ----
(***************************************************************************)
(* Model of app.py: the books table of writing_progress.db, the background *)
(* writing_process thread of every book, and one browser session that      *)
(* starts runs and polls get_book_info.  Database access is interleaved at *)
(* the granularity of single SQL statements (SELECT, UPDATE, commit).      *)
(*                                                                         *)
(* Text is modelled as a sequence of string tokens; string concatenation   *)
(* is \o.  A call of the remote API returns None (an exception was         *)
(* caught), the empty string, or one of a small set of texts.              *)
(*                                                                         *)
(* SQLite semantics assumed: a SELECT outside a transaction sees committed *)
(* rows only; the UPDATE opens the connection's implicit transaction and   *)
(* holds the database write lock until commit, so a second writer waits.   *)
(* The busy timeout of a waiting writer (an OperationalError after 5 s) is *)
(* not modelled: the lock is held for one statement only.                  *)
(***************************************************************************)
EXTENDS Integers, Sequences, FiniteSets, TLC

\* ---------------------------------------------------------------- bounds
\* number of start-run requests (books created) explored
MaxBooks == 1
\* largest value of the "number of chapters" input explored
MaxChapters == 2
\* number of start-run requests explored when several projects run at once
MaxRuns == 2
\* largest "number of chapters" input explored when several projects run
MultiChapters == 1
\* number of add_book_to_db calls explored when the store is called directly
MaxRows == 2

\* ---------------------------------------------------------------- inputs
\* range(3) of the draft loop, and the threshold len(drafts) < 3
NumDrafts == 3

\* the book titles entered
Titles == {"A"}
\* what the three text inputs of the sidebar may hold when the button is
\* pressed (the number input has min_value=1, max_value=100)
ApiKeys == {"", "key"}
ModelNames == {"", "deepseek-chat"}
TitleInputs == Titles \cup {""}
\* the non-empty texts the API may return to the selection request
Texts == {<<"a">>, <<"b", "a">>}
\* the non-empty text the API may return to a draft request
DraftTexts == {<<"d">>}

\* ---------------------------------------------------------------- values
\* the absent value of a status or of a fetched row (Python None)
None == <<>>

\* status strings written by the program
Queued == <<"queued">>
Generating(chapter_num) == <<"generating", chapter_num>>
DraftFailed == <<"error_draft">>
SelectFailed == <<"error_select">>
Running == <<"running">>
Completed == <<"completed">>

\* mutant: the selection failure is missing from the list of line 205
TerminalStatusesShort == {Completed, DraftFailed}

\* the statuses at which the auto-refresh loop stops polling
TerminalStatuses == {Completed, DraftFailed, SelectFailed}

\* str(n) in decimal, as a sequence of digit tokens
Digits == <<"0", "1", "2", "3", "4", "5", "6", "7", "8", "9">>
RECURSIVE Str(_)
Str(n) == IF n < 10 THEN <<Digits[n + 1]>> ELSE Str(n \div 10) \o <<Digits[(n % 10) + 1]>>

\* the f-string of line 126: separator, "## ", chapter heading, blank line, text
NewContent(chapter_num, best_chapter) ==
    <<"\n\n---\n\n## ">> \o Str(chapter_num) \o <<"\n\n">> \o best_chapter

\* what call_deepseek_api may return: None or a string (possibly empty)
ApiNone == [none |-> TRUE, text |-> <<>>]
ApiText(t) == [none |-> FALSE, text |-> t]
ApiResults(texts) == {ApiNone, ApiText(<<>>)} \cup {ApiText(t) : t \in texts}
\* mutant: the value is tested with "is not None"
TruthyNotNone(r) == ~r.none
\* Python truthiness of the returned value
Truthy(r) == ~r.none /\ r.text # <<>>

\* ---------------------------------------------------------------- state
VARIABLES
    books,            \* the books table: a sequence of rows, row i has id i
    th,               \* th[t]: the t-th writing_process thread started, with
                      \* its argument book_id and its locals
    current_book_id,  \* st.session_state.current_book_id (0 is None)
    book_info,        \* what get_book_info last returned to the session's
                      \* script run: <<row>>, or None before the call
    hist,             \* hist[id]: the (position, status, document) triples the
                      \* row held after creation and after each complete update
    chosen            \* chosen[t]: the non-empty texts the selection call
                      \* returned to thread t so far, in order

vars == <<books, th, current_book_id, book_info, hist, chosen>>

\* the ids AUTOINCREMENT has given out, and the threads started
BookIds == 1..Len(books)
ThreadIds == DOMAIN th

Triple(row) == <<row.current_chapter, row.status, row.full_text>>

\* The frame of a call update_book_progress(book_id, current_chapter, status,
\* new_content): its arguments, the current_text its SELECT fetched, whether
\* its UPDATE statement has run (and is not yet committed), and the place of
\* the caller it returns to.
Call(current_chapter, status, new_content, ret) ==
    [current_chapter |-> current_chapter, status |-> status,
     new_content |-> new_content, current_text |-> <<>>, written |-> FALSE,
     ret |-> ret]
\* no call is running
NoCall == Call(0, None, <<>>, "none")

Init ==
    /\ books = <<>>
    /\ th = <<>>
    /\ current_book_id = 0
    /\ book_info = None
    /\ hist = <<>>
    /\ chosen = <<>>

\* ---------------------------------------------------------------- store
\* mutant: the current_chapter column defaults to 1
InsertRowStarted(title, total_chapters) ==
    [id |-> Len(books) + 1, title |-> title, total_chapters |-> total_chapters,
     current_chapter |-> 1, status |-> Queued, full_text |-> <<>>]

\* INSERT INTO books (title, total_chapters, status): the column defaults
\* give current_chapter 0 and full_text ''; AUTOINCREMENT gives the id
InsertRow(title, total_chapters) ==
    [id |-> Len(books) + 1, title |-> title, total_chapters |-> total_chapters,
     current_chapter |-> 0, status |-> Queued, full_text |-> <<>>]

\* mutant: the UPDATE stores new_content in place of the concatenation
AppendTextOverwrite(current_text, new_content) == new_content

\* full_text = current_text + new_content if current_text else new_content
AppendText(current_text, new_content) ==
    IF current_text # <<>> THEN current_text \o new_content ELSE new_content

\* the row as the UPDATE statement leaves it
UpdatedRow(row, call) ==
    [row EXCEPT !.current_chapter = call.current_chapter,
                !.status = call.status,
                !.full_text = AppendText(call.current_text, call.new_content)]

\* mutant: the UPDATE statement without its WHERE clause
MatchesAll(row, book_id) == TRUE

\* WHERE id = ?
Matches(row, book_id) == row.id = book_id

\* the row a statement with WHERE id = ? works on (id is a primary key)
RowOf(book_id) == books[CHOOSE i \in DOMAIN books : Matches(books[i], book_id)]

\* the call of update_book_progress whose UPDATE of the book is executed and
\* not committed, if there is one
PendingCall(book_id) ==
    IF \E t \in ThreadIds : th[t].book_id = book_id /\ th[t].call.written
    THEN th[CHOOSE t \in ThreadIds :
                th[t].book_id = book_id /\ th[t].call.written].call
    ELSE NoCall

\* mutant: a reader sees the position and status of an uncommitted UPDATE
\* together with the committed text
VisibleRowDirty(row, call) ==
    IF call.written
    THEN [row EXCEPT !.current_chapter = call.current_chapter,
                     !.status = call.status]
    ELSE row

\* What a SELECT on another connection sees of a row while a writer's
\* transaction holds an uncommitted UPDATE of it: the committed row.
VisibleRow(row, call) == row

\* SELECT * FROM books WHERE id = ?  (get_book_info)
SelectRow(id) ==
    IF \E i \in DOMAIN books : books[i].id = id
    THEN <<VisibleRow(RowOf(id), PendingCall(id))>>
    ELSE None

\* some connection holds the database write lock (an UPDATE not yet committed)
WriteLocked == \E t \in ThreadIds : th[t].call.written

\* update_book_progress up to its first statement: the frame of the call
\* with the result of SELECT full_text FROM books WHERE id = ?
Fetched(t, call) ==
    [call EXCEPT !.current_text = RowOf(th[t].book_id).full_text]

\* ---------------------------------------------------------------- driver
\* the calls of update_book_progress made by writing_process
\* mutant: the generating status names the chapter after this one
GeneratingCallNext(chapter_num) ==
    Call(chapter_num, Generating(chapter_num + 1), <<>>, "draft")
\* mutant: the heading of the chapter is stored when the chapter is started
GeneratingCallWithHeading(chapter_num) ==
    Call(chapter_num, Generating(chapter_num), NewContent(chapter_num, <<>>), "draft")
GeneratingCall(chapter_num) ==
    Call(chapter_num, Generating(chapter_num), <<>>, "draft")
\* mutant: the return after the draft failure is missing
DraftFailedCallNoReturn(chapter_num) ==
    Call(chapter_num, DraftFailed, <<>>, "select")
\* mutant: the draft failure records the previous chapter number
DraftFailedCallPrevious(chapter_num) ==
    Call(chapter_num - 1, DraftFailed, <<>>, "done")
DraftFailedCall(chapter_num) ==
    Call(chapter_num, DraftFailed, <<>>, "done")
\* mutant: the chapter heading is written before the answer is tested
SelectFailedCallWithHeading(chapter_num) ==
    Call(chapter_num, SelectFailed, NewContent(chapter_num, <<>>), "done")
SelectFailedCall(chapter_num) ==
    Call(chapter_num, SelectFailed, <<>>, "done")
\* mutant: the last chapter is not recognised
RunStatusNever(chapter_num, num_chapters) ==
    IF chapter_num <= num_chapters THEN Running ELSE Completed
\* mutant: off by one in the test for the last chapter
RunStatusEarly(chapter_num, num_chapters) ==
    IF chapter_num + 1 < num_chapters THEN Running ELSE Completed
\* status = running if chapter_num < num_chapters else completed
RunStatus(chapter_num, num_chapters) ==
    IF chapter_num < num_chapters THEN Running ELSE Completed
AppendCall(chapter_num, num_chapters, new_content) ==
    Call(chapter_num, RunStatus(chapter_num, num_chapters), new_content, "loop")

\* the locals of a thread that has not run yet; draft_requests and
\* select_requests count the calls of call_deepseek_api the thread has made
\* at line 102 and at line 119
Locals(book_id, title, total_chapters) ==
    [pc |-> "start", book_id |-> book_id, book_title |-> title,
     num_chapters |-> total_chapters,
     chapter_num |-> 0, full_text |-> <<>>, drafts |-> <<>>, i |-> 0,
     best_chapter |-> ApiNone, call |-> NoCall,
     draft_requests |-> 0, select_requests |-> 0]

\* mutant: the thread is given the id of the first book with this title
NewThreadByTitle(title, total_chapters) ==
    Locals(IF \E b \in BookIds : books[b].title = title
           THEN CHOOSE b \in BookIds :
                    /\ books[b].title = title
                    /\ \A c \in BookIds : books[c].title = title => b <= c
           ELSE InsertRow(title, total_chapters).id,
           title, total_chapters)

\* book_id = add_book_to_db(...) (cursor.lastrowid, the id of the inserted
\* row) and the thread object created with it, not yet scheduled
NewThread(title, total_chapters) ==
    Locals(InsertRow(title, total_chapters).id, title, total_chapters)

\* all([api_key, model_name, book_title])
Filled(api_key, model_name, title) ==
    api_key # "" /\ model_name # "" /\ title # ""

\* The else branch of the "start writing" button: add_book_to_db, select the
\* new book in the session, start its thread.
StartWriting(title, total_chapters) ==
    /\ ~WriteLocked
    /\ books' = Append(books, InsertRow(title, total_chapters))
    /\ th' = Append(th, NewThread(title, total_chapters))
    /\ current_book_id' = InsertRow(title, total_chapters).id
    /\ book_info' = None
    /\ hist' = Append(hist, {Triple(InsertRow(title, total_chapters))})
    /\ chosen' = Append(chosen, <<>>)

\* the "start writing" button, pressed with all fields filled in
StartRun(title, total_chapters) ==
    /\ Len(books) < MaxBooks
    /\ StartWriting(title, total_chapters)

\* the same button while several projects are explored
StartRunMulti(title, total_chapters) ==
    /\ Len(books) < MaxRuns
    /\ StartWriting(title, total_chapters)

\* the button pressed with a field left empty: st.warning, nothing else
StartRunRejected ==
    UNCHANGED vars

\* book_info = get_book_info(book_id); full_text = book_info[5]
Begin(t) ==
    /\ th[t].pc = "start"
    /\ th' = [th EXCEPT ![t].pc = "loop",
                        ![t].full_text = SelectRow(th[t].book_id)[1].full_text]
    /\ UNCHANGED <<books, current_book_id, book_info, hist, chosen>>

\* for chapter_num in range(1, num_chapters + 1): the next iteration calls
\* update_book_progress with the "generating" status (up to its SELECT), or
\* the loop ends
Loop(t) ==
    /\ th[t].pc = "loop"
    /\ IF th[t].chapter_num < th[t].num_chapters
       THEN th' = [th EXCEPT ![t].pc = "ubp_update",
                             ![t].chapter_num = @ + 1,
                             ![t].drafts = <<>>,
                             ![t].i = 0,
                             ![t].call = Fetched(t, GeneratingCall(th[t].chapter_num + 1))]
       ELSE th' = [th EXCEPT ![t].pc = "done"]
    /\ UNCHANGED <<books, current_book_id, book_info, hist, chosen>>

\* update_book_progress: the UPDATE statement, inside the transaction the
\* connection opens for it; it waits for the database write lock
UbpUpdate(t) ==
    /\ th[t].pc = "ubp_update"
    /\ ~WriteLocked
    /\ th' = [th EXCEPT ![t].pc = "ubp_commit", ![t].call.written = TRUE]
    /\ UNCHANGED <<books, current_book_id, book_info, hist, chosen>>

\* update_book_progress: conn.commit() and return to the caller
UbpCommit(t) ==
    /\ th[t].pc = "ubp_commit"
    /\ books' = [i \in DOMAIN books |->
                     IF Matches(books[i], th[t].book_id)
                     THEN UpdatedRow(books[i], th[t].call)
                     ELSE books[i]]
    /\ hist' = [hist EXCEPT ![th[t].book_id] =
                     @ \cup {Triple(UpdatedRow(RowOf(th[t].book_id), th[t].call))}]
    /\ th' = [th EXCEPT ![t].pc = th[t].call.ret, ![t].call = NoCall]
    /\ UNCHANGED <<current_book_id, book_info, chosen>>

\* mutant: the draft loop is left at the first draft that failed
DraftLoopBreak(i, drafts) ==
    IF i < NumDrafts /\ Len(drafts) = i THEN "draft" ELSE "check"

\* "for i in range(3)" after i passes with these drafts kept: another pass,
\* or on to "if len(drafts) < 3"
DraftLoop(i, drafts) ==
    IF i < NumDrafts THEN "draft" ELSE "check"

\* the drafts list after "if draft: drafts.append(draft)"
Kept(drafts, draft) ==
    IF Truthy(draft) THEN Append(drafts, draft.text) ELSE drafts

\* one pass of "for i in range(3)": a draft request, kept if truthy
Draft(t) ==
    /\ th[t].pc = "draft"
    /\ \E draft \in ApiResults(DraftTexts) :
        th' = [th EXCEPT ![t].drafts = Kept(@, draft),
                         ![t].i = @ + 1,
                         ![t].draft_requests = @ + 1,
                         ![t].pc = DraftLoop(th[t].i + 1, Kept(th[t].drafts, draft))]
    /\ UNCHANGED <<books, current_book_id, book_info, hist, chosen>>

\* if len(drafts) < 3: update_book_progress(..., draft failure, "") (up to
\* its SELECT), after which the thread returns; else go on to the selection
CheckDrafts(t) ==
    /\ th[t].pc = "check"
    /\ IF Len(th[t].drafts) < NumDrafts
       THEN th' = [th EXCEPT ![t].pc = "ubp_update",
                             ![t].call = Fetched(t, DraftFailedCall(th[t].chapter_num))]
       ELSE th' = [th EXCEPT ![t].pc = "select"]
    /\ UNCHANGED <<books, current_book_id, book_info, hist, chosen>>

\* best_chapter = call_deepseek_api(...); on a falsy answer the failure is
\* recorded and the thread returns, otherwise the labeled chapter is added
\* to the local full_text and update_book_progress is called with it (in
\* both cases up to the SELECT of update_book_progress)
SelectBest(t) ==
    /\ th[t].pc = "select"
    /\ \E best_chapter \in ApiResults(Texts) :
        IF ~Truthy(best_chapter)
        THEN /\ th' = [th EXCEPT ![t].pc = "ubp_update",
                                 ![t].best_chapter = best_chapter,
                                 ![t].select_requests = @ + 1,
                                 ![t].call = Fetched(t, SelectFailedCall(th[t].chapter_num))]
             /\ chosen' = chosen
        ELSE /\ th' = [th EXCEPT ![t].pc = "ubp_update",
                                 ![t].best_chapter = best_chapter,
                                 ![t].select_requests = @ + 1,
                                 ![t].full_text =
                                     @ \o NewContent(th[t].chapter_num, best_chapter.text),
                                 ![t].call =
                                     Fetched(t, AppendCall(th[t].chapter_num, th[t].num_chapters,
                                                NewContent(th[t].chapter_num, best_chapter.text)))]
             /\ chosen' = [chosen EXCEPT ![t] = Append(@, best_chapter.text)]
    /\ UNCHANGED <<books, current_book_id, book_info, hist>>

\* --------------------------------------------------------------- session
\* a library button: the script reruns with this book selected
SelectBook(b) ==
    /\ current_book_id' = b
    /\ book_info' = None
    /\ UNCHANGED <<books, th, hist, chosen>>

\* the main view of a script run: book_info = get_book_info(current_book_id)
View ==
    /\ current_book_id # 0
    /\ book_info = None
    /\ book_info' = SelectRow(current_book_id)
    /\ UNCHANGED <<books, th, current_book_id, hist, chosen>>

\* if status not in [...]: time.sleep(10); st.experimental_rerun() -- the
\* script runs again and reads the book again
AutoRefresh ==
    /\ current_book_id # 0
    /\ book_info # None
    /\ book_info[1].status \notin TerminalStatuses
    /\ book_info' = SelectRow(current_book_id)
    /\ UNCHANGED <<books, th, current_book_id, hist, chosen>>

\* The host process is terminated and the application is started again:
\* the daemon threads that had not returned are gone, an UPDATE that was not
\* committed is rolled back, the session state is new; the database file
\* is kept.
Restart ==
    /\ \E t \in ThreadIds : th[t].pc \notin {"done", "killed"}
    /\ th' = [t \in ThreadIds |->
                 IF th[t].pc \in {"done", "killed"}
                 THEN th[t]
                 ELSE [Locals(th[t].book_id, th[t].book_title, th[t].num_chapters)
                          EXCEPT !.pc = "killed"]]
    /\ current_book_id' = 0
    /\ book_info' = None
    /\ UNCHANGED <<books, hist, chosen>>

\* a step of the thread t
Driver(t) ==
    \/ Begin(t)
    \/ Loop(t)
    \/ UbpUpdate(t)
    \/ UbpCommit(t)
    \/ Draft(t)
    \/ CheckDrafts(t)
    \/ SelectBest(t)

\* a press of the "start writing" button with a field left empty
Rejected ==
    /\ {f \in ApiKeys \X ModelNames \X TitleInputs : ~Filled(f[1], f[2], f[3])} # {}
    /\ StartRunRejected

Next ==
    \/ \E api_key \in ApiKeys, model_name \in ModelNames, title \in TitleInputs,
          total_chapters \in 1..MaxChapters :
           Filled(api_key, model_name, title) /\ StartRun(title, total_chapters)
    \/ Rejected
    \/ \E t \in ThreadIds : Begin(t)
    \/ \E t \in ThreadIds : Loop(t)
    \/ \E t \in ThreadIds : UbpUpdate(t)
    \/ \E t \in ThreadIds : UbpCommit(t)
    \/ \E t \in ThreadIds : Draft(t)
    \/ \E t \in ThreadIds : CheckDrafts(t)
    \/ \E t \in ThreadIds : SelectBest(t)
    \/ \E b \in BookIds : SelectBook(b)
    \/ View
    \/ AutoRefresh

Spec == Init /\ [][Next]_vars

\* The threads are scheduled fairly and every API call returns: each thread
\* that can take a step eventually takes one.  The scripts of the session
\* run to their end (the main view, the timed rerun).  Nothing is assumed of
\* the user's clicks.
Fairness ==
    /\ \A t \in 1..MaxBooks : WF_vars(t \in ThreadIds /\ Driver(t))
    /\ WF_vars(View)
    /\ WF_vars(AutoRefresh)

SpecFair == Spec /\ Fairness

\* the runs alone, without the pages of the session
NextRun ==
    \/ \E api_key \in ApiKeys, model_name \in ModelNames, title \in TitleInputs,
          total_chapters \in 1..MaxChapters :
           Filled(api_key, model_name, title) /\ StartRun(title, total_chapters)
    \/ Rejected
    \/ \E t \in ThreadIds : Driver(t)

SpecRun == Init /\ [][NextRun]_vars
SpecRunFair == SpecRun /\ \A t \in 1..MaxBooks : WF_vars(t \in ThreadIds /\ Driver(t))

\* the program with terminations of the host process
NextKill == Next \/ Restart
SpecKill == Init /\ [][NextKill]_vars

\* the "start writing" button pressed while no thread is at work
StartRunAlone(title, total_chapters) ==
    /\ Len(books) < MaxBooks
    /\ \A t \in ThreadIds : th[t].pc \in {"done", "killed"}
    /\ StartWriting(title, total_chapters)

\* the program with terminations of the host process, used for one book at
\* a time: a book is started when the threads of the earlier ones are gone
NextWatch ==
    \/ \E api_key \in ApiKeys, model_name \in ModelNames, title \in TitleInputs,
          total_chapters \in 1..MaxChapters :
           /\ Filled(api_key, model_name, title)
           /\ StartRunAlone(title, total_chapters)
    \/ Rejected
    \/ \E t \in ThreadIds : Driver(t)
    \/ \E b \in BookIds : SelectBook(b)
    \/ View
    \/ AutoRefresh
    \/ Restart

SpecWatch == Init /\ [][NextWatch]_vars
SpecWatchFair == SpecWatch /\ Fairness

\* several projects started one after the other and written concurrently
NextMulti ==
    \/ \E api_key \in ApiKeys, model_name \in ModelNames, title \in TitleInputs,
          total_chapters \in 1..MultiChapters :
           Filled(api_key, model_name, title) /\ StartRunMulti(title, total_chapters)
    \/ Rejected
    \/ \E t \in ThreadIds : Driver(t)

SpecMulti == Init /\ [][NextMulti]_vars

\* add_book_to_db(title, total_chapters) called directly, with any arguments
AddBookToDb(title, total_chapters) ==
    /\ Len(books) < MaxRows
    /\ ~WriteLocked
    /\ books' = Append(books, InsertRow(title, total_chapters))
    /\ hist' = Append(hist, {Triple(InsertRow(title, total_chapters))})
    /\ UNCHANGED <<th, current_book_id, book_info, chosen>>

\* the store alone: add_book_to_db and get_book_info called with any arguments
NextStore ==
    \/ \E title \in TitleInputs, total_chapters \in 0..MaxChapters :
           AddBookToDb(title, total_chapters)
    \/ \E b \in BookIds : SelectBook(b)
    \/ View

SpecStore == Init /\ [][NextStore]_vars

\* ------------------------------------------------------- claim vocabulary
\* the labeled segments of units 1..m, given the texts selected for them
RECURSIVE DocOf(_, _)
DocOf(texts, m) ==
    IF m = 0 THEN <<>> ELSE DocOf(texts, m - 1) \o NewContent(m, texts[m])

\* the number of labeled unit segments a stored document consists of (-1 if
\* it is not the concatenation of the segments of units 1..m for any m)
Units(b, full_text) ==
    IF \E m \in 0..Len(chosen[b]) : full_text = DocOf(chosen[b], m)
    THEN CHOOSE m \in 0..Len(chosen[b]) : full_text = DocOf(chosen[b], m)
    ELSE -1

IsPrefix(s, t) == Len(s) <= Len(t) /\ SubSeq(t, 1, Len(s)) = s

FailedStatuses == {DraftFailed, SelectFailed}

\* C1: in every persisted state of a project, position (current_chapter)
\* equals the number of labeled unit segments appended to the document.
C1_PositionCountsUnits ==
    \A b \in BookIds : books[b].current_chapter = Units(b, books[b].full_text)

\* C2: every snapshot get_book_info returns is the (position, status,
\* document) triple of the project as it stood after its creation or after
\* some complete update_book_progress call: no torn update is observed.
C2_NoTornRead ==
    book_info # None =>
        Triple(book_info[1]) \in hist[book_info[1].id]

\* C2 witness: the session holds a snapshot of a book whose writer has an
\* appending UPDATE executed and not yet committed.
C2_Witness ==
    /\ book_info # None
    /\ th[book_info[1].id].call.written
    /\ th[book_info[1].id].call.new_content # <<>>
    /\ book_info[1].current_chapter = th[book_info[1].id].call.current_chapter

\* C3: in every persisted state, status is completed if and only if position
\* equals target_length (total_chapters).
C3_CompletedIffAtTarget ==
    \A b \in BookIds :
        (books[b].status = Completed) <=>
            (books[b].current_chapter = books[b].total_chapters)

\* C4: terminal states are absorbing: once the persisted status is a failed
\* status or completed, no update_book_progress call is running or is made
\* for the project, and its row never changes again.
C4_TerminalAbsorbing ==
    [][\A b \in BookIds :
          books[b].status \in TerminalStatuses =>
              /\ books'[b] = books[b]
              /\ th[b].call = NoCall
              /\ th'[b].call = NoCall]_vars

\* C4 witness: a project that failed at unit 1 of 2, whose thread has
\* returned with unit 2 never started.
C4_Witness ==
    \E b \in BookIds :
        /\ books[b].status = DraftFailed
        /\ th[b].pc = "done"
        /\ th[b].chapter_num < th[b].num_chapters

\* C5: when fewer than 3 candidates succeed for unit k, the persisted state
\* is failed("draft generation failed") with position k-1 (for k = 1:
\* position 0 and an empty document).
C5_DraftFailureKeepsPosition ==
    \A b \in BookIds :
        books[b].status = DraftFailed =>
            /\ books[b].current_chapter = th[b].chapter_num - 1
            /\ th[b].chapter_num = 1 =>
                   books[b].current_chapter = 0 /\ books[b].full_text = <<>>

\* C6: when all 3 candidates succeed for unit k and the selection call fails
\* or returns empty text, the persisted state is failed("selection failed")
\* with position k-1.
C6_SelectFailureKeepsPosition ==
    \A b \in BookIds :
        books[b].status = SelectFailed =>
            books[b].current_chapter = th[b].chapter_num - 1

\* C7: on either failure exit for unit k the persisted document is exactly
\* the labeled segments of units 1..k-1 and nothing of unit k.
C7_FailureAppendsNothing ==
    \A b \in BookIds :
        books[b].status \in FailedStatuses =>
            /\ Len(chosen[b]) = th[b].chapter_num - 1
            /\ books[b].full_text = DocOf(chosen[b], th[b].chapter_num - 1)

\* C7 witness: both failure exits taken at unit 2, after unit 1 was appended
\* (the draft failure is shown by C4's witness as well).
C7_Witness ==
    \E b \in BookIds :
        /\ books[b].status = SelectFailed
        /\ th[b].chapter_num = 2
        /\ books[b].full_text # <<>>

\* C8: whenever status is completed the document is exactly the labeled
\* segments of units 1..target_length in order, each heading followed by the
\* text the selection call returned for it, and position is target_length;
\* and a run in which every unit was selected ends completed.
C8_CompletedDocument ==
    \A b \in BookIds :
        /\ books[b].status = Completed =>
              /\ Len(chosen[b]) = books[b].total_chapters
              /\ books[b].full_text = DocOf(chosen[b], books[b].total_chapters)
              /\ books[b].current_chapter = books[b].total_chapters
        /\ (th[b].pc = "done" /\ Len(chosen[b]) = books[b].total_chapters) =>
              books[b].status = Completed

\* C8 witness: the full run with target_length = 2 and two different texts.
C8_Witness ==
    \E b \in BookIds :
        /\ books[b].status = Completed
        /\ books[b].total_chapters = 2
        /\ books[b].current_chapter = 2
        /\ chosen[b] = <<<<"b", "a">>, <<"a">>>>
        /\ books[b].full_text =
               NewContent(1, <<"b", "a">>) \o NewContent(2, <<"a">>)

\* C9: the document always is the concatenation of the labeled segments of
\* units 1..m in increasing order for some m in 0..target_length, and every
\* update leaves the previous document as a prefix of the new one.
C9_OrderedAppendOnly ==
    /\ [](\A b \in BookIds :
            Units(b, books[b].full_text) \in 0..books[b].total_chapters)
    /\ [][\A b \in BookIds :
            IsPrefix(books[b].full_text, books'[b].full_text)]_vars

\* C9 witness: a document of two units, the second appended after the first.
C9_Witness ==
    \E b \in BookIds :
        /\ Units(b, books[b].full_text) = 2
        /\ books[b].full_text # DocOf(chosen[b], 1)

\* C10: the persisted position, and the position seen by successive polls of
\* get_book_info, never decreases and stays within 0..target_length.
C10_PositionMonotone ==
    /\ [](\A b \in BookIds :
            books[b].current_chapter \in 0..books[b].total_chapters)
    /\ [][\A b \in BookIds :
            books'[b].current_chapter >= books[b].current_chapter]_vars
    /\ [][(book_info # None /\ book_info' # None) =>
            /\ book_info'[1].id = book_info[1].id
            /\ book_info'[1].current_chapter >= book_info[1].current_chapter
            /\ book_info'[1].current_chapter \in 0..book_info'[1].total_chapters]_vars

\* C10 witness: a poll observed position 2 after position 1 was persisted.
C10_Witness ==
    /\ book_info # None
    /\ book_info[1].current_chapter = 2
    /\ <<1, Generating(1), <<>>>> \in hist[book_info[1].id]

\* the run of thread t has ended in exactly one terminal status: completed
\* with every unit selected, or failed at the unit it was working on, with
\* the units before it selected and no later unit started
Ended(t) ==
    /\ t \in ThreadIds
    /\ th[t].pc = "done"
    /\ th[t].call = NoCall
    /\ \/ /\ RowOf(th[t].book_id).status = Completed
          /\ Len(chosen[t]) = th[t].num_chapters
          /\ th[t].chapter_num = th[t].num_chapters
       \/ /\ RowOf(th[t].book_id).status \in FailedStatuses
          /\ Len(chosen[t]) = th[t].chapter_num - 1
          /\ th[t].chapter_num \in 1..th[t].num_chapters

\* C11: with the threads scheduled fairly and every API call returning,
\* every started run eventually ends in exactly one terminal status,
\* completed after all units or failed at the first failing unit; once it
\* has ended, the thread attempts nothing more.
C11_RunTerminates ==
    /\ \A t \in 1..MaxBooks : (t \in ThreadIds) ~> Ended(t)
    /\ [][\A t \in ThreadIds :
            (th[t].pc = "done" \/ RowOf(th[t].book_id).status \in FailedStatuses)
                => (th'[t] = th[t] /\ chosen'[t] = chosen[t])]_vars

\* C11 witness: one run ended completed after two units were started
\* and a run is known that failed at unit 2 (see C7's witness).
C11_Witness ==
    \E t \in ThreadIds :
        /\ Ended(t)
        /\ th[t].num_chapters = 2
        /\ RowOf(th[t].book_id).status = Completed

\* C12: every start-run request creates a fresh project id and starts
\* exactly one thread bound to it, so no project has two threads, and no
\* two threads ever run update_book_progress for the same project.
C12_SingleWriter ==
    /\ Len(th) = Len(books)
    /\ \A i, j \in DOMAIN books : books[i].id = books[j].id => i = j
    /\ \A t \in ThreadIds : \E i \in DOMAIN books : books[i].id = th[t].book_id
    /\ \A t, u \in ThreadIds : th[t].book_id = th[u].book_id => t = u

\* C12 witness: two requests with the same title, both threads inside
\* update_book_progress at the same time.
C12_Witness ==
    \E t, u \in ThreadIds :
        /\ t # u
        /\ th[t].book_title = th[u].book_title
        /\ th[t].call # NoCall
        /\ th[u].call # NoCall

\* C13: a start-run request with valid input gets an id no existing project
\* has, and the project read back by that id has the given title and
\* target_length, position 0, status queued and an empty document.
C13_CreateProject ==
    [][Len(th') = Len(th) + 1 =>
          /\ \A i \in DOMAIN books : books[i].id # current_book_id'
          /\ th'[Len(th')].book_id = current_book_id'
          /\ SelectRow(current_book_id)' =
                 <<[id |-> current_book_id',
                    title |-> th'[Len(th')].book_title,
                    total_chapters |-> th'[Len(th')].num_chapters,
                    current_chapter |-> 0,
                    status |-> Queued,
                    full_text |-> <<>>]>>]_vars

\* C13 witness: a second project just created while the first is under way.
C13_Witness ==
    /\ Len(books) = 2
    /\ current_book_id = 2
    /\ SelectRow(2) # None
    /\ SelectRow(2)[1].status = Queued
    /\ SelectRow(1)[1].status # Queued
    /\ th[2].pc = "start"

\* C14: create with an empty title or target_length <= 0 fails and creates
\* no project record.
C14_InvalidCreateRejected ==
    \A i \in DOMAIN books : books[i].title # "" /\ books[i].total_chapters > 0

\* C20: a step changes a row only as the commit of the update_book_progress
\* call of the thread of that row's project; it leaves the row's id, title
\* and target_length, and every other row, unchanged.
C20_UpdateFrame ==
    [][\A i \in DOMAIN books :
          books'[i] # books[i] =>
              /\ books'[i].id = books[i].id
              /\ books'[i].title = books[i].title
              /\ books'[i].total_chapters = books[i].total_chapters
              /\ \E t \in ThreadIds :
                    /\ th[t].book_id = books[i].id
                    /\ th[t].pc = "ubp_commit"
                    /\ th'[t].call = NoCall
                    /\ books'[i] = UpdatedRow(books[i], th[t].call)
              /\ \A j \in DOMAIN books : j # i => books'[j] = books[j]]_vars

\* C20 witness: two projects, each updated by its own thread.
C20_Witness ==
    /\ Len(books) = 2
    /\ books[1].status = Completed
    /\ books[2].status = DraftFailed
    /\ books[1].full_text # <<>>
    /\ books[2].full_text = <<>>

\* The state of the project of thread t in the terms of the state diagram:
\* queued, generating(k), selecting(k), completed, failed. The store holds
\* no "selecting" status: unit k is being selected from the moment its three
\* drafts are accepted (line 106 passed) until the next status that names
\* another state is committed.
Phase(t) ==
    LET row == RowOf(th[t].book_id)
        c == th[t].call
    IN  IF row.status = Queued THEN <<"queued">>
        ELSE IF row.status = Completed THEN <<"completed">>
        ELSE IF row.status \in FailedStatuses THEN <<"failed", row.status>>
        ELSE IF row.status = Running THEN <<"selecting", row.current_chapter>>
        ELSE IF \/ th[t].pc = "select"
                \/ c # NoCall /\ c.status \in {SelectFailed, Running, Completed}
             THEN <<"selecting", row.status[2]>>
             ELSE <<"generating", row.status[2]>>

\* the arrows of the state diagram for a project of N units
PhaseStep(p, q, N) ==
    \/ p = <<"queued">> /\ q = <<"generating", 1>>
    \/ \E k \in 1..N :
        \/ p = <<"generating", k>> /\ q = <<"selecting", k>>
        \/ p = <<"generating", k>> /\ q = <<"failed", DraftFailed>>
        \/ p = <<"selecting", k>> /\ q = <<"failed", SelectFailed>>
        \/ p = <<"selecting", k>> /\ k < N /\ q = <<"generating", k + 1>>
        \/ p = <<"selecting", k>> /\ k = N /\ q = <<"completed">>

\* C15: a project starts in queued and every change of its state follows
\* one arrow of queued -> generating(1) -> selecting(1) -> ... ->
\* generating(N) -> selecting(N) -> completed, or the exit to failed from a
\* generating(k) or selecting(k) state; completed and failed are never left.
C15_StateSequence ==
    /\ [][\A t \in DOMAIN th' : t \notin ThreadIds => Phase(t)' = <<"queued">>]_vars
    /\ [][\A t \in ThreadIds :
             Phase(t)' # Phase(t) => PhaseStep(Phase(t), Phase(t)', th[t].num_chapters)]_vars

\* C15 witness: the second unit of a two-unit project is being selected.
C15_Witness ==
    \E t \in ThreadIds :
        /\ th[t].num_chapters = 2
        /\ th[t].pc = "select"
        /\ Phase(t) = <<"selecting", 2>>
        /\ Len(chosen[t]) = 1

\* the units thread t completed before the one it is working on
UnitsBefore(t) ==
    IF th[t].chapter_num > 0 THEN th[t].chapter_num - 1 ELSE 0

\* the draft loop of the unit thread t started has been left
DraftsOver(t) ==
    /\ th[t].chapter_num > 0
    /\ th[t].pc # "draft"
    /\ ~(th[t].call # NoCall /\ th[t].call.status = Generating(th[t].chapter_num))

\* thread t is past line 119 in the unit it started
SelectionOver(t) ==
    /\ DraftsOver(t)
    /\ th[t].pc \notin {"check", "select"}
    /\ Len(th[t].drafts) = 3

\* C16: for every unit started, exactly 3 draft requests are issued, whether
\* or not an earlier one failed; the selection request is issued once if
\* the 3 drafts were all non-empty texts and not at all otherwise; an answer
\* of None or of empty text is never kept as a draft nor as a chosen chapter.
C16_RequestsPerUnit ==
    \A t \in ThreadIds :
        /\ th[t].draft_requests = 3 * UnitsBefore(t) + th[t].i
        /\ th[t].i <= 3
        /\ DraftsOver(t) => th[t].i = 3
        /\ Len(th[t].drafts) <= th[t].i
        /\ \A d \in DOMAIN th[t].drafts : th[t].drafts[d] # <<>>
        /\ th[t].pc = "select" => Len(th[t].drafts) = 3
        /\ th[t].select_requests =
               UnitsBefore(t) + (IF SelectionOver(t) THEN 1 ELSE 0)
        /\ Len(chosen[t]) =
               UnitsBefore(t)
                 + (IF SelectionOver(t) /\ Truthy(th[t].best_chapter) THEN 1 ELSE 0)
        /\ \A k \in DOMAIN chosen[t] : chosen[t][k] # <<>>
        /\ (th[t].call # NoCall /\ th[t].call.status = DraftFailed)
              => Len(th[t].drafts) < 3
        /\ (th[t].call # NoCall /\ th[t].call.status = SelectFailed)
              => SelectionOver(t) /\ ~Truthy(th[t].best_chapter)

\* C16 witness: one of the three draft requests of a unit failed, all
\* three were issued, and the thread ended without a selection request.
C16_Witness ==
    \E t \in ThreadIds :
        /\ th[t].pc = "done"
        /\ th[t].chapter_num = 1
        /\ th[t].draft_requests = 3
        /\ Len(th[t].drafts) = 2
        /\ th[t].select_requests = 0
        /\ RowOf(th[t].book_id).status = DraftFailed

\* C17 as stated: whenever thread t builds a draft or selection request for
\* unit k its local full_text equals the stored document, which is units
\* 1..k-1, and the local copy and the stored document are equal at every
\* point of the run.
C17_NeverDiverge ==
    \A t \in ThreadIds :
        th[t].pc # "start" =>
            /\ th[t].pc \in {"draft", "select"} =>
                  RowOf(th[t].book_id).full_text = DocOf(chosen[t], th[t].chapter_num - 1)
            /\ th[t].full_text = RowOf(th[t].book_id).full_text

\* C17 amended: whenever thread t builds a draft or selection request for
\* unit k its local full_text equals the stored document, which is units
\* 1..k-1; at any other point of the run the local copy differs from the
\* stored document only by the unit whose update_book_progress call is
\* under way.
C17_ContextIsDocument ==
    \A t \in ThreadIds :
        th[t].pc # "start" =>
            /\ th[t].pc \in {"draft", "check", "select"} =>
                  /\ th[t].full_text = RowOf(th[t].book_id).full_text
                  /\ Len(chosen[t]) = th[t].chapter_num - 1
                  /\ th[t].full_text = DocOf(chosen[t], th[t].chapter_num - 1)
            /\ th[t].full_text # RowOf(th[t].book_id).full_text =>
                  /\ th[t].call # NoCall
                  /\ th[t].call.new_content # <<>>
                  /\ th[t].call.new_content =
                         NewContent(th[t].chapter_num, th[t].best_chapter.text)
                  /\ th[t].full_text =
                         RowOf(th[t].book_id).full_text \o th[t].call.new_content

\* C17 witness: the selection request of unit 2 is built on a document
\* holding unit 1.
C17_Witness ==
    \E t \in ThreadIds :
        /\ th[t].pc = "select"
        /\ th[t].chapter_num = 2
        /\ th[t].full_text # <<>>
        /\ th[t].full_text = RowOf(th[t].book_id).full_text

\* thread t was killed with the process
Killed(t) ==
    th[t].pc = "killed"

Observing(t) ==
    /\ current_book_id = th[t].book_id
    /\ book_info # None

\* the status shown on the page, if a project is shown
ObservedStatus ==
    IF book_info # None THEN book_info[1].status ELSE None

\* thread t has returned and the session has its project selected
EndedAndSelected(t) ==
    IF t \in ThreadIds
    THEN th[t].pc = "done" /\ current_book_id = th[t].book_id
    ELSE FALSE

\* the page that showed the project of thread t has stopped polling on a
\* terminal status, or the session has left that project
PollingStopped(t) ==
    IF t \in ThreadIds
    THEN \/ current_book_id # th[t].book_id
         \/ /\ Observing(t)
            /\ ObservedStatus \in {Completed, DraftFailed, SelectFailed}
            /\ ~ENABLED AutoRefresh
    ELSE FALSE

\* C19: the page polls again exactly when the status it has read is none of
\* completed, draft failure, selection failure; the last status a thread
\* writes is one of these three and every earlier one is not; so the
\* observer of a thread that has ended eventually reads a terminal status
\* and stops polling, while the observer of a thread killed before its last
\* update keeps polling a row that never changes.
C19_ObserverPolling ==
    /\ [](book_info # None =>
             ((ENABLED AutoRefresh) <=>
                 ObservedStatus \notin {Completed, DraftFailed, SelectFailed}))
    /\ [](\A t \in ThreadIds :
             /\ th[t].pc = "done" =>
                   RowOf(th[t].book_id).status \in {Completed, DraftFailed, SelectFailed}
             /\ th[t].call # NoCall =>
                   (th[t].call.status \in {Completed, DraftFailed, SelectFailed}
                      <=> \/ th[t].call.ret = "done"
                          \/ /\ th[t].call.new_content # <<>>
                             /\ th[t].chapter_num = th[t].num_chapters)
             /\ (th[t].call # NoCall
                   /\ th[t].call.status \notin {Completed, DraftFailed, SelectFailed}) =>
                   \/ th[t].call.status = Running
                   \/ th[t].call.status = Generating(th[t].chapter_num))
    /\ \A t \in 1..MaxBooks : EndedAndSelected(t) ~> PollingStopped(t)
    /\ [](\A t \in ThreadIds :
             (/\ Killed(t)
              /\ RowOf(th[t].book_id).status \notin {Completed, DraftFailed, SelectFailed}
              /\ Observing(t)) => ENABLED AutoRefresh)
    /\ [][\A t \in ThreadIds :
             (/\ Killed(t)
              /\ RowOf(th[t].book_id).status \notin {Completed, DraftFailed, SelectFailed})
                => /\ RowOf(th[t].book_id)' = RowOf(th[t].book_id)
                   /\ Killed(t)']_vars

\* C19 witness: the observer of a killed thread reads the generating status
\* the thread left behind.
C19_Witness ==
    \E t \in ThreadIds :
        /\ Killed(t)
        /\ Observing(t)
        /\ ObservedStatus = Generating(1)
        /\ ENABLED AutoRefresh

====
